---- MODULE Spec2Model ----
(***************************************************************************)
(* A model of the scripts of streamlit_app_personal:                       *)
(*   urbano_mdr.py    the Flask form that inserts rows into solicitacoes   *)
(*   ac_agua7.py      the water dashboard                                  *)
(*   ac_drenagem8.py  the drainage dashboard                               *)
(*   agro.py, agro3.py the agronomic interpolation dashboards              *)
(*   locais_postes.py the dashboard of the street-light poles              *)
(* Text is a sequence of one-character strings; a Decimal quantized to     *)
(* DEC6 is its sign and the digits of its coefficient (exponent -6).       *)
(***************************************************************************)
EXTENDS Integers, Sequences, FiniteSets, TLC

\* ------------------------------------------------------------------------
\* Bounds of the model
\* ------------------------------------------------------------------------
MaxIntLen == 1
MaxFracLen == 1
MaxRows == 2        \* rows the table may hold
MaxClock == 1       \* seconds the wall clock may advance
MaxFeatures == 3    \* features of a GeoJSON file
MaxSamples == 2     \* rows of the spreadsheet of soil samples
MaxPostes == 2      \* rows of the spreadsheet of poles

VARIABLES
    coordenadas, \* SpecCoords: the text handed to parse_coords_combined, as written
    coords,      \* SpecCoords: <<>>, then the pair the function returned
    table,       \* urbano.solicitacoes: the committed rows, in insertion order
    seq,         \* the last value the id sequence of the table handed out
    uploads,     \* static/uploads: the files, each a name and its content
    clock,       \* datetime.now().timestamp(), in whole seconds
    request,     \* the request the server handled last (None before the first)
    flashed,     \* the message that request flashed
    response,    \* the response that request got
    app,         \* the dashboard script that is running
    file,        \* the dataset on disk that the script reads
    cache,       \* st.cache_data: what the cached loader returned, or NoCache
    widgets,     \* the values of the widgets of the session
    rendered     \* what the last run of the script put on the page

coordVars == <<coordenadas, coords>>
serverVars == <<table, seq, uploads, clock, request, flashed, response>>
dashVars == <<app, file, cache, widgets, rendered>>
vars == <<coordenadas, coords, table, seq, uploads, clock, request, flashed,
          response, app, file, cache, widgets, rendered>>

\* ------------------------------------------------------------------------
\* Text helpers (the str methods the scripts call)
\* ------------------------------------------------------------------------
\* None where a text is expected, where a Decimal is expected, where an
\* uploaded file is expected; no response yet, and redirect(url_for('index'))
None == <<"None">>
NoDecimal == [sign |-> 2, digits |-> <<>>]
NoFile == [filename |-> <<>>, data |-> "absent"]
NoResponse == <<"none">>
Redirect == <<"redirect:index">>
TAB == "\t"
U2212 == "u2212"
Whitespace == {" ", TAB}
Digits == {"0", "1", "2", "3", "4", "5", "6", "7", "8", "9"}

DigitVal(c) ==
    CASE c = "0" -> 0 [] c = "1" -> 1 [] c = "2" -> 2 [] c = "3" -> 3
      [] c = "4" -> 4 [] c = "5" -> 5 [] c = "6" -> 6 [] c = "7" -> 7
      [] c = "8" -> 8 [] c = "9" -> 9

RECURSIVE lstrip(_)
lstrip(s) ==
    IF s # <<>> /\ Head(s) \in Whitespace THEN lstrip(Tail(s)) ELSE s

RECURSIVE rstrip(_)
rstrip(s) ==
    IF s # <<>> /\ s[Len(s)] \in Whitespace
    THEN rstrip(SubSeq(s, 1, Len(s) - 1)) ELSE s

\* str.strip()
strip(s) == rstrip(lstrip(s))

\* str.replace(old, new) for a one-character old and new
replace(s, old, new) ==
    [i \in 1..Len(s) |-> IF s[i] = old THEN new ELSE s[i]]

\* str.replace('  ', ' '): left to right, non-overlapping
RECURSIVE replace2sp(_)
replace2sp(s) ==
    IF Len(s) < 2 THEN s
    ELSE IF s[1] = " " /\ s[2] = " "
         THEN <<" ">> \o replace2sp(SubSeq(s, 3, Len(s)))
         ELSE <<s[1]>> \o replace2sp(Tail(s))

\* str.split(): the maximal runs of non-whitespace characters
RECURSIVE split_ws(_, _)
split_ws(s, cur) ==
    IF s = <<>> THEN (IF cur = <<>> THEN <<>> ELSE <<cur>>)
    ELSE IF Head(s) \in Whitespace
         THEN (IF cur = <<>> THEN <<>> ELSE <<cur>>) \o split_ws(Tail(s), <<>>)
         ELSE split_ws(Tail(s), Append(cur, Head(s)))

\* ' '.join(parts)
RECURSIVE join_sp(_)
join_sp(parts) ==
    IF parts = <<>> THEN <<>>
    ELSE IF Len(parts) = 1 THEN parts[1]
    ELSE parts[1] \o <<" ">> \o join_sp(Tail(parts))

\* str.split(' '): every piece between single spaces, empty pieces kept
RECURSIVE split_sp(_, _)
split_sp(s, cur) ==
    IF s = <<>> THEN <<cur>>
    ELSE IF Head(s) = " "
         THEN <<cur>> \o split_sp(Tail(s), <<>>)
         ELSE split_sp(Tail(s), Append(cur, Head(s)))

\* ------------------------------------------------------------------------
\* urbano_mdr.py: coordinates
\* ------------------------------------------------------------------------
DigitChar(n) ==
    CASE n = 0 -> "0" [] n = 1 -> "1" [] n = 2 -> "2" [] n = 3 -> "3"
      [] n = 4 -> "4" [] n = 5 -> "5" [] n = 6 -> "6" [] n = 7 -> "7"
      [] n = 8 -> "8" [] n = 9 -> "9"

AllDigits(s) == \A i \in 1..Len(s) : s[i] \in Digits

\* The text without its sign
Unsigned(s) == IF s # <<>> /\ s[1] \in {"-", "+"} THEN Tail(s) ELSE s

\* Position of the first '.', or 0
RECURSIVE DotAt(_, _)
DotAt(s, i) ==
    IF i > Len(s) THEN 0 ELSE IF s[i] = "." THEN i ELSE DotAt(s, i + 1)

\* Decimal(s) accepts [sign] digits ['.' [digits]] | [sign] '.' digits
\* (the exponent, Infinity and NaN forms need letters)
IsNumericString(s) ==
    LET u == Unsigned(s)
        d == DotAt(u, 1)
        ip == IF d = 0 THEN u ELSE SubSeq(u, 1, d - 1)
        fp == IF d = 0 THEN <<>> ELSE SubSeq(u, d + 1, Len(u))
    IN  /\ AllDigits(ip)
        /\ AllDigits(fp)
        /\ Len(ip) + Len(fp) >= 1

\* Decimal(s): sign, integer digits and fraction digits
Decimal(s) ==
    LET u == Unsigned(s)
        d == DotAt(u, 1)
    IN  [neg |-> s # <<>> /\ s[1] = "-",
         ip |-> IF d = 0 THEN u ELSE SubSeq(u, 1, d - 1),
         fp |-> IF d = 0 THEN <<>> ELSE SubSeq(u, d + 1, Len(u))]

\* A coefficient without its leading zeros ("0" for zero)
RECURSIVE NoLeadingZeros(_)
NoLeadingZeros(ds) ==
    IF Len(ds) > 1 /\ Head(ds) = "0" THEN NoLeadingZeros(Tail(ds)) ELSE ds

\* A coefficient plus one
RECURSIVE PlusOne(_)
PlusOne(ds) ==
    IF ds = <<>> THEN <<"1">>
    ELSE LET front == SubSeq(ds, 1, Len(ds) - 1)
             last == ds[Len(ds)]
         IN  IF last = "9" THEN Append(PlusOne(front), "0")
             ELSE Append(front, DigitChar(DigitVal(last) + 1))

\* A Decimal with exponent -6: its sign and the digits of its coefficient,
\* as Decimal.as_tuple() gives them
Dec6(neg, coefficient) ==
    [sign |-> IF neg THEN 1 ELSE 0, digits |-> NoLeadingZeros(coefficient)]

\* ROUND_HALF_UP to 6 places: the 7th fraction digit decides, away from zero
RoundHalfUp(d) ==
    LET f6 == [i \in 1..6 |-> IF i <= Len(d.fp) THEN d.fp[i] ELSE "0"]
        cut == d.ip \o f6
    IN  Dec6(d.neg, IF Len(d.fp) >= 7 /\ DigitVal(d.fp[7]) >= 5
                    THEN PlusOne(cut) ELSE cut)

\* d.quantize(DEC6, rounding=ROUND_HALF_UP); InvalidOperation (None to the
\* caller) when the result has more digits than the context's precision, 28
quantize(d) ==
    LET q == RoundHalfUp(d) IN IF Len(q.digits) > 28 THEN NoDecimal ELSE q

parse_coord(value) ==
    IF value = None \/ value = <<>> THEN NoDecimal
    ELSE LET s0 == strip(value) IN
         IF s0 = <<>> THEN NoDecimal
         ELSE LET s == replace(replace(s0, ",", "."), U2212, "-") IN
              IF IsNumericString(s) THEN quantize(Decimal(s)) ELSE NoDecimal

\* The separators of the loop, replaced in the order of the list
ReplaceSeparators(s) ==
    replace2sp(replace(replace(replace(replace(s, ",", " "), ";", " "),
                               "|", " "), TAB, " "))

parse_coords_combined(value) ==
    IF value = None \/ value = <<>> THEN <<NoDecimal, NoDecimal>>
    ELSE LET s0 == strip(value) IN
         IF s0 = <<>> THEN <<NoDecimal, NoDecimal>>
         ELSE LET s == join_sp(split_ws(ReplaceSeparators(s0), <<>>))
                  parts == split_sp(s, <<>>)
              IN  IF Len(parts) < 2 THEN <<NoDecimal, NoDecimal>>
                  ELSE <<parse_coord(parts[1]), parse_coord(parts[2])>>

\* ------------------------------------------------------------------------
\* SpecCoords: parse_coords_combined applied to written coordinate pairs
\* ------------------------------------------------------------------------
\* A coordinate as a person writes it: sign, integer digits, fraction digits
SomeDigits == {"0", "5"}
DocLat == [neg |-> TRUE, ip |-> <<"2">>, fp |-> <<"0", "5", "3", "6", "5", "5">>]
DocLon == [neg |-> TRUE, ip |-> <<"4", "7">>,
           fp |-> <<"5", "4", "9", "8", "4", "9">>]
SeqsUpTo(S, lo, hi) == UNION {[1..n -> S] : n \in lo..hi}
Literals ==
    {DocLat, DocLon} \cup
    [neg : BOOLEAN, ip : SeqsUpTo(SomeDigits, 1, MaxIntLen),
     fp : SeqsUpTo(SomeDigits, 0, MaxFracLen)]

\* The number a written coordinate of at most 6 places denotes, with 6 places
LiteralDec6(l) ==
    Dec6(l.neg, l.ip \o l.fp \o [i \in 1..(6 - Len(l.fp)) |-> "0"])

\* The text of a written coordinate with decimal separator dec
Written(l, dec) ==
    (IF l.neg THEN <<"-">> ELSE <<>>) \o l.ip
    \o (IF l.fp = <<>> THEN <<>> ELSE <<dec>> \o l.fp)

DecimalSeparators == {".", ","}
PairDelimiters ==
    {<<",", " ">>, <<";", " ">>, <<" ">>, <<",">>, <<";">>, <<"|">>,
     <<TAB>>, <<" ", " ">>}

\* A form with nothing filled in
NoRequest ==
    [nome_rua |-> None, numero |-> None, bairro |-> None,
     coordenadas |-> None, latitude |-> None, longitude |-> None,
     situacao |-> <<>>, foto |-> NoFile]

\* No dashboard is running
DashIdle ==
    /\ app = "none"
    /\ file = <<>>
    /\ cache = <<>>
    /\ widgets = <<>>
    /\ rendered = <<>>

\* The server has handled no request
ServerIdle ==
    /\ table = <<>>
    /\ seq = 0
    /\ uploads = {}
    /\ clock = 0
    /\ request = NoRequest
    /\ flashed = "none"
    /\ response = NoResponse

InitCoords ==
    /\ ServerIdle
    /\ DashIdle
    /\ \E lat \in Literals, lon \in Literals,
          dec \in DecimalSeparators, delim \in PairDelimiters :
          coordenadas = [lat |-> lat, lon |-> lon, dec |-> dec, delim |-> delim,
                   text |-> Written(lat, dec) \o delim \o Written(lon, dec)]
    /\ coords = <<>>

ParseCombined ==
    /\ coords = <<>>
    /\ coords' = parse_coords_combined(coordenadas.text)
    /\ UNCHANGED <<coordenadas, serverVars, dashVars>>

NextCoords == ParseCombined

SpecCoords == InitCoords /\ [][NextCoords]_vars

\* The three forms the docstring of parse_coords_combined documents
DocumentedForm(v) ==
    \/ v.dec = "." /\ v.delim = <<",", " ">>
    \/ v.dec = "," /\ v.delim = <<";", " ">>
    \/ v.dec = "." /\ v.delim = <<" ">>

\* C1: a pair written in a documented form is returned as that same latitude
\* and that same longitude, each with 6 decimal places.
C1_DocumentedFormsReturned ==
    (coords # <<>> /\ DocumentedForm(coordenadas))
        => coords = <<LiteralDec6(coordenadas.lat),
                     LiteralDec6(coordenadas.lon)>>

\* ------------------------------------------------------------------------
\* SpecParse: parse_coord applied to texts, numbers and others
\* ------------------------------------------------------------------------
Signs == {<<>>, <<"-">>, <<"+">>, <<U2212>>}
IntegerParts ==
    {<<"0">>, <<"5">>, <<"9", "9", "9">>, <<"1", "0", "0", "0">>,
     <<"5", "0", "0", "0">>}
FractionParts ==
    {<<>>, <<"5">>, <<"0", "0", "0", "0", "0", "0", "4">>,
     <<"0", "0", "0", "0", "0", "0", "5">>,
     <<"9", "9", "9", "9", "9", "9", "5">>}
Paddings == {<<>>, <<" ">>, <<TAB>>}

\* The texts that are no number
OtherTexts ==
    {None, <<>>, <<" ">>, <<TAB, " ">>, <<"x">>, <<"1", "x">>, <<"-">>,
     <<".">>, <<"1", ".", "2", ".", "3">>, <<"1", " ", "2">>, <<"-", "-", "1">>}

InitParse ==
    /\ ServerIdle
    /\ DashIdle
    /\ coords = <<>>
    /\ \/ \E sg \in Signs, ip \in IntegerParts, fp \in FractionParts,
             dec \in DecimalSeparators, pad \in Paddings :
             coordenadas =
                 [number |-> TRUE, neg |-> sg \in {<<"-">>, <<U2212>>},
                  ip |-> ip, fp |-> fp,
                  text |-> pad \o sg \o ip
                           \o (IF fp = <<>> THEN <<>> ELSE <<dec>> \o fp)
                           \o pad]
       \/ \E t \in OtherTexts :
             coordenadas = [number |-> FALSE, neg |-> FALSE, ip |-> <<>>,
                            fp |-> <<>>, text |-> t]

ParseCoord ==
    /\ coords = <<>>
    /\ coords' = <<parse_coord(coordenadas.text)>>
    /\ UNCHANGED <<coordenadas, serverVars, dashVars>>

NextParse == ParseCoord

SpecParse == InitParse /\ [][NextParse]_vars

\* ------------------------------------------------------------------------
\* urbano_mdr.py: uploads
\* ------------------------------------------------------------------------
Range(s) == {s[i] : i \in 1..Len(s)}

\* str.lower() on the letters file names are written with here
lower(s) ==
    [i \in 1..Len(s) |->
        CASE s[i] = "P" -> "p" [] s[i] = "N" -> "n" [] s[i] = "G" -> "g"
          [] s[i] = "A" -> "a" [] s[i] = "B" -> "b" [] s[i] = "X" -> "x"
          [] OTHER -> s[i]]

ALLOWED_EXTENSIONS ==
    {<<"p", "n", "g">>, <<"j", "p", "g">>, <<"j", "p", "e", "g">>,
     <<"g", "i", "f">>, <<"w", "e", "b", "p">>}

\* Position of the last '.', or 0
RECURSIVE LastDotAt(_, _)
LastDotAt(s, i) ==
    IF i = 0 THEN 0 ELSE IF s[i] = "." THEN i ELSE LastDotAt(s, i - 1)

allowed_file_AnyDot(filename) == "." \in Range(filename)
allowed_file(filename) ==
    /\ "." \in Range(filename)
    /\ lower(SubSeq(filename, LastDotAt(filename, Len(filename)) + 1,
                    Len(filename))) \in ALLOWED_EXTENSIONS

\* '_'.join(parts)
RECURSIVE join_us(_)
join_us(parts) ==
    IF parts = <<>> THEN <<>>
    ELSE IF Len(parts) = 1 THEN parts[1]
    ELSE parts[1] \o <<"_">> \o join_us(Tail(parts))

RECURSIVE StripDotsLeft(_)
StripDotsLeft(s) ==
    IF s # <<>> /\ Head(s) \in {".", "_"} THEN StripDotsLeft(Tail(s)) ELSE s

RECURSIVE StripDotsRight(_)
StripDotsRight(s) ==
    IF s # <<>> /\ s[Len(s)] \in {".", "_"}
    THEN StripDotsRight(SubSeq(s, 1, Len(s) - 1)) ELSE s

\* werkzeug's secure_filename on ASCII names: path separators become spaces,
\* runs of whitespace become '_', leading and trailing '.' and '_' are cut
secure_filename(filename) ==
    StripDotsRight(StripDotsLeft(
        join_us(split_ws(replace(filename, "/", " "), <<>>))))

\* os.path.splitext: the extension starts at the last '.', unless only dots
\* come before it
splitext(filename) ==
    LET d == LastDotAt(filename, Len(filename)) IN
    IF d = 0 \/ \A i \in 1..d : filename[i] = "."
    THEN <<filename, <<>>>>
    ELSE <<SubSeq(filename, 1, d - 1), SubSeq(filename, d, Len(filename))>>

\* str(n) for n >= 0
RECURSIVE IntText(_)
IntText(n) ==
    IF n < 10 THEN <<DigitChar(n)>>
    ELSE Append(IntText(n \div 10), DigitChar(n % 10))

\* f"{base}_{int(datetime.now().timestamp())}{ext}"
StampedName(filename, now) ==
    LET be == splitext(secure_filename(filename))
    IN  be[1] \o <<"_">> \o IntText(now) \o be[2]

\* `if foto_file and foto_file.filename and allowed_file(...)`
FotoAccepted(foto) ==
    foto # NoFile /\ foto.filename # <<>> /\ allowed_file(foto.filename)

\* foto_file.save(destino): a file of that name is overwritten
save(dir, filename, data) ==
    {f \in dir : f.name # filename} \cup {[name |-> filename, data |-> data]}

UploadPrefix == <<"/static/uploads/">>

\* ------------------------------------------------------------------------
\* urbano_mdr.py: POST /enviar
\* ------------------------------------------------------------------------
\* (request.form.get(name) or '').strip()
FormText_NoStrip(v) == IF v = None THEN <<>> ELSE v
FormText(v) == IF v = None THEN <<>> ELSE strip(v)

\* ','.join(parts)
RECURSIVE join_comma(_)
join_comma(parts) ==
    IF parts = <<>> THEN <<>>
    ELSE IF Len(parts) = 1 THEN parts[1]
    ELSE parts[1] \o <<",">> \o join_comma(Tail(parts))

\* lat, lon of the request: the combined field first, then the separate ones
RequestCoords_SeparateFirst(req) ==
    LET c == parse_coords_combined(req.coordenadas) IN
    IF req.latitude # None \/ req.longitude # None
    THEN <<parse_coord(req.latitude), parse_coord(req.longitude)>>
    ELSE c
RequestCoords(req) ==
    LET c == parse_coords_combined(req.coordenadas) IN
    IF c[1] = NoDecimal /\ c[2] = NoDecimal
    THEN <<parse_coord(req.latitude), parse_coord(req.longitude)>>
    ELSE c

\* `if not nome_rua or not numero or not bairro`
MissingRequired(req) ==
    \/ FormText(req.nome_rua) = <<>>
    \/ FormText(req.numero) = <<>>
    \/ FormText(req.bairro) = <<>>

\* Solicitacao(...): the row of a request, with the id and the photo path
Solicitacao(id, req, foto_path_rel) ==
    [id |-> id,
     rua |-> FormText(req.nome_rua),
     numero |-> FormText(req.numero),
     bairro |-> FormText(req.bairro),
     latitude |-> RequestCoords(req)[1],
     longitude |-> RequestCoords(req)[2],
     foto_path |-> foto_path_rel,
     situacoes |-> IF req.situacao = <<>> THEN None
                   ELSE join_comma(req.situacao)]

\* Column widths of the table
RuaWidth == 120
NumeroWidth == 10
BairroWidth == 80
NumericPrecision == 9

\* A NUMERIC(9,6) column takes a value of at most 9 digits
FitsNumeric(d) == d = NoDecimal \/ Len(d.digits) <= NumericPrecision

\* The INSERT of the row is refused by the database
InsertRefused(row) ==
    \/ Len(row.rua) > RuaWidth
    \/ Len(row.numero) > NumeroWidth
    \/ Len(row.bairro) > BairroWidth
    \/ ~FitsNumeric(row.latitude)
    \/ ~FitsNumeric(row.longitude)

\* db.session.add(nova); db.session.commit(): one INSERT
commit_Merge(rows, nova) ==
    IF rows = <<>> THEN <<nova>> ELSE [rows EXCEPT ![Len(rows)] = nova]
commit(rows, nova) == Append(rows, nova)

\* db.session.rollback(): the pending row is dropped, the committed rows stay
rollback_KeepsPending(rows, nova) == Append(rows, nova)
rollback(rows, nova) == rows

\* The handler, whole. dbfail: the database is unreachable at commit.
enviar_formulario(req, dbfail) ==
    LET filename == StampedName(req.foto.filename, clock)
        foto_path_rel == IF FotoAccepted(req.foto)
                         THEN UploadPrefix \o filename ELSE None
        nova == Solicitacao(seq + 1, req, foto_path_rel)
    IN  /\ request' = req
        /\ uploads' = IF FotoAccepted(req.foto)
                      THEN save(uploads, filename, req.foto.data)
                      ELSE uploads
        /\ response' = Redirect
        /\ IF MissingRequired(req)
           THEN /\ flashed' = "error:preencha"
                /\ UNCHANGED <<table, seq>>
           ELSE IF dbfail
           THEN \* nothing of the request stays
                /\ flashed' = "error:salvar"
                /\ table' = rollback(table, nova)
                /\ UNCHANGED seq
           ELSE IF InsertRefused(nova)
           THEN \* the id the INSERT drew from the sequence is lost
                /\ flashed' = "error:salvar"
                /\ seq' = seq + 1
                /\ table' = rollback(table, nova)
           ELSE /\ flashed' = "success"
                /\ seq' = seq + 1
                /\ table' = commit(table, nova)
        /\ UNCHANGED <<clock, coordVars, dashVars>>

\* A second passes
Tick ==
    /\ clock < MaxClock
    /\ clock' = clock + 1
    /\ UNCHANGED <<table, seq, uploads, request, flashed, response, coordVars,
                   dashVars>>

\* ------------------------------------------------------------------------
\* SpecEnviar: sequences of POST /enviar that vary the required fields
\* ------------------------------------------------------------------------
Txt15 == <<"1", ".", "5">>
BaseRequest ==
    [nome_rua |-> <<"a">>, numero |-> <<"1">>, bairro |-> <<"b">>,
     coordenadas |-> None, latitude |-> None, longitude |-> None,
     situacao |-> <<>>, foto |-> NoFile]

RuaTexts == {None, <<" ">>, <<" ", "a", " ">>, <<"r">>}
NumeroTexts == {None, <<>>, <<"1", TAB>>}
BairroTexts == {<<>>, <<TAB, " ">>, <<"b">>}

\* One required field varied at a time, and all three missing at once
FieldRequests ==
    {[BaseRequest EXCEPT !.nome_rua = r] : r \in RuaTexts}
    \cup {[BaseRequest EXCEPT !.numero = n] : n \in NumeroTexts}
    \cup {[BaseRequest EXCEPT !.bairro = b] : b \in BairroTexts}
    \cup {[BaseRequest EXCEPT !.nome_rua = None, !.numero = <<>>,
                              !.bairro = <<" ">>]}

OtherRequests ==
    {[BaseRequest EXCEPT !.coordenadas = Txt15 \o <<" ">> \o Txt15,
                         !.situacao = <<<<"l", "u", "z">>, <<"v", "i", "a">>>>],
     [BaseRequest EXCEPT !.coordenadas =
                             <<"5", "0", "0", "0", " ", "1">>],
     [BaseRequest EXCEPT !.foto = [filename |-> <<"p", ".", "P", "N", "G">>,
                                   data |-> "img1"]],
     [BaseRequest EXCEPT !.nome_rua = <<" ">>,
                         !.foto = [filename |-> <<"p", ".", "p", "n", "g">>,
                                   data |-> "img2"]]}

EnviarRequests == FieldRequests \cup OtherRequests

InitServer ==
    /\ ServerIdle
    /\ DashIdle
    /\ coordenadas = NoRequest
    /\ coords = <<>>

Enviar ==
    /\ Len(table) < MaxRows
    /\ seq < MaxRows + 1
    /\ \E req \in EnviarRequests, dbfail \in BOOLEAN :
          enviar_formulario(req, dbfail)

NextEnviar == Enviar

SpecEnviar == InitServer /\ [][NextEnviar]_vars

\* ------------------------------------------------------------------------
\* SpecLatLon: sequences of POST /enviar that vary the coordinate fields
\* ------------------------------------------------------------------------
Txt05 == <<"0", ".", "5">>
CombinedTexts ==
    {None, <<" ">>, <<"x">>, Txt15 \o <<" ", "5">>, Txt15 \o <<" ", "x">>,
     <<"x", " ", "5">>}
SeparateTexts ==
    {<<None, None>>, <<Txt05, Txt05>>, <<Txt05, None>>,
     <<<<"x">>, <<"0", ",", "5">>>>}

LatLonRequests ==
    {[BaseRequest EXCEPT !.coordenadas = c, !.latitude = p[1],
                         !.longitude = p[2]] :
        c \in CombinedTexts, p \in SeparateTexts}

EnviarLatLon ==
    /\ Len(table) < MaxRows
    /\ seq < MaxRows + 1
    /\ \E req \in LatLonRequests, dbfail \in BOOLEAN :
          enviar_formulario(req, dbfail)

NextLatLon == EnviarLatLon

SpecLatLon == InitServer /\ [][NextLatLon]_vars

\* ------------------------------------------------------------------------
\* urbano_mdr.py: GET /lista
\* ------------------------------------------------------------------------
\* str(d) of a Decimal of 6 places
str_decimal(d) ==
    LET n == Len(d.digits)
        ds == [i \in 1..(IF n < 7 THEN 7 - n ELSE 0) |-> "0"] \o d.digits
    IN  (IF d.sign = 1 THEN <<"-">> ELSE <<>>)
        \o SubSeq(ds, 1, Len(ds) - 6) \o <<".">>
        \o SubSeq(ds, Len(ds) - 5, Len(ds))

\* Solicitacao.query.order_by(Solicitacao.id.desc()).all()
RECURSIVE itens_Ascending(_)
itens_Ascending(rows) ==
    IF rows = <<>> THEN <<>>
    ELSE LET k == CHOOSE k \in 1..Len(rows) :
                      \A j \in 1..Len(rows) : rows[j].id >= rows[k].id
         IN  <<rows[k]>>
             \o itens_Ascending(SubSeq(rows, 1, k - 1)
                                \o SubSeq(rows, k + 1, Len(rows)))
RECURSIVE itens(_)
itens(rows) ==
    IF rows = <<>> THEN <<>>
    ELSE LET k == CHOOSE k \in 1..Len(rows) :
                      \A j \in 1..Len(rows) : rows[j].id <= rows[k].id
         IN  <<rows[k]>>
             \o itens(SubSeq(rows, 1, k - 1)
                      \o SubSeq(rows, k + 1, Len(rows)))

\* The location of a line
loc(i) ==
    IF i.latitude # NoDecimal /\ i.longitude # NoDecimal
    THEN str_decimal(i.latitude) \o <<",">> \o str_decimal(i.longitude)
    ELSE <<"-">>

\* x or '-'
or_dash(x) == IF x = None \/ x = <<>> THEN <<"-">> ELSE x

\* The line of a row
linha(i) ==
    IntText(i.id) \o <<" - ">> \o i.rua \o <<", ">> \o i.numero \o <<" - ">>
    \o i.bairro \o <<" | loc: ">> \o loc(i) \o <<" | foto: ">>
    \o or_dash(i.foto_path) \o <<" | situacoes: ">> \o or_dash(i.situacoes)

\* '<br>'.join(linhas)
RECURSIVE join_br(_)
join_br(linhas) ==
    IF linhas = <<>> THEN <<>>
    ELSE IF Len(linhas) = 1 THEN linhas[1]
    ELSE linhas[1] \o <<"<br>">> \o join_br(Tail(linhas))

lista(rows) ==
    LET linhas == [k \in 1..Len(rows) |-> linha(itens(rows)[k])]
        body == join_br(linhas)
    IN  IF body = <<>> THEN <<"Sem registros.">> ELSE body

\* GET /lista
Lista ==
    /\ request' = NoRequest
    /\ flashed' = "none"
    /\ response' = lista(table)
    /\ UNCHANGED <<table, seq, uploads, clock, coordVars, dashVars>>

NextLista == EnviarLatLon \/ Lista

SpecLista == InitServer /\ [][NextLista]_vars

\* ------------------------------------------------------------------------
\* SpecUploads: sequences of POST /enviar that vary the photo, over time
\* ------------------------------------------------------------------------
Foto(f, d) == [filename |-> f, data |-> d]
FotoRequests ==
    {BaseRequest,
     [BaseRequest EXCEPT !.foto = Foto(<<"p", ".", "P", "N", "G">>, "img1")],
     [BaseRequest EXCEPT !.foto = Foto(<<"p", ".", "P", "N", "G">>, "img2")],
     [BaseRequest EXCEPT !.foto = Foto(<<"p", ".", "e", "x", "e">>, "img1")],
     [BaseRequest EXCEPT !.foto = Foto(<<"p", "n", "g">>, "img1")],
     [BaseRequest EXCEPT !.foto = Foto(<<>>, "img1")],
     [BaseRequest EXCEPT !.nome_rua = <<>>,
                         !.foto = Foto(<<"p", ".", "P", "N", "G">>, "img2")]}

EnviarFoto ==
    /\ Len(table) < MaxRows
    /\ seq < MaxRows + 1
    /\ \E req \in FotoRequests, dbfail \in BOOLEAN :
          enviar_formulario(req, dbfail)

NextUploads == EnviarFoto \/ Tick

SpecUploads == InitServer /\ [][NextUploads]_vars

\* ------------------------------------------------------------------------
\* Claims about POST /enviar
\* ------------------------------------------------------------------------
\* A form value that is missing or blank
Blank(v) == v = None \/ \A i \in 1..Len(v) : v[i] \in Whitespace

\* A stored text that is non-empty and has no whitespace at either end
Trimmed(t) ==
    t # <<>> /\ t[1] \notin Whitespace /\ t[Len(t)] \notin Whitespace

AnyRequiredBlank(req) ==
    Blank(req.nome_rua) \/ Blank(req.numero) \/ Blank(req.bairro)

\* C2: every stored row has a non-empty street, number and neighbourhood
\* without leading or trailing whitespace, and a request in which one of the
\* three is missing or blank produces no row.
C2_RequiredFieldsStored ==
    [][/\ \A i \in 1..Len(table') :
            /\ Trimmed(table'[i].rua)
            /\ Trimmed(table'[i].numero)
            /\ Trimmed(table'[i].bairro)
       /\ AnyRequiredBlank(request') => table' = table]_vars

\* C2 witness: a request with a padded street name was stored, trimmed
C2_Witness ==
    /\ request.nome_rua = <<" ", "a", " ">>
    /\ flashed = "success"
    /\ table # <<>>
    /\ table[Len(table)].rua = <<"a">>

\* C3: a request adds exactly one row when the three required fields are
\* non-empty and the commit succeeds, no row otherwise, and the rows of
\* earlier requests stay as they were.
C3_AppendOnly ==
    [][/\ Len(table') >= Len(table)
       /\ SubSeq(table', 1, Len(table)) = table
       /\ IF ~AnyRequiredBlank(request') /\ flashed' = "success"
          THEN Len(table') = Len(table) + 1
          ELSE table' = table]_vars

\* C3 witness: a commit failed after a row had been stored, and the row is
\* still there
C3_Witness ==
    /\ flashed = "error:salvar"
    /\ ~AnyRequiredBlank(request)
    /\ Len(table) = 1
    /\ table[1].id = 1

\* ------------------------------------------------------------------------
\* ac_agua7.py and ac_drenagem8.py: the dataset
\* ------------------------------------------------------------------------
\* A property of a GeoJSON feature is a text, null (None) or has no key
\* (Absent); a numeric property is a number, null, absent or a text that is
\* no number.
Absent == <<"Absent">>
NaoInformado == <<"Nao informado">>
Todas == <<"Todas">>

Num(n) == [t |-> "num", n |-> n]
NullNum == [t |-> "null", n |-> 0]
AbsentNum == [t |-> "absent", n |-> 0]
TextNum == [t |-> "text", n |-> 0]

Feature(a, b, l, d, q) ==
    [AREA_y |-> a, BAIRRO_COM |-> b, LABEL |-> l, N_domi |-> d,
     pop_estim1 |-> q]

\* What OGR reads for geopandas: typed columns, a text or a number or null
FeaturesAgua ==
    {Feature(<<"N">>, <<"x">>, <<"s">>, Num(1), Num(2)),
     Feature(<<"N">>, <<"y">>, None, Num(2), NullNum),
     Feature(<<"S">>, <<"x">>, <<"n">>, NullNum, Num(1)),
     Feature(None, None, <<"s">>, Num(1), Num(1))}

\* What json.load reads: also features without a key, and any JSON value
FeaturesDrenagem ==
    FeaturesAgua \cup
    {Feature(Absent, <<"y">>, Absent, TextNum, AbsentNum),
     Feature(<<>>, <<" ">>, <<"n">>, Num(2), Num(2))}

FilesOf(S) == UNION {[1..n -> S] : n \in 0..MaxFeatures}

\* pandas: a cell that is NaN or None
Missing(v) == v = None \/ v = Absent

\* A column is in the frame when some feature has the key
HasColumn(features, col) ==
    \E i \in 1..Len(features) :
        IF col \in {"N_domi", "pop_estim1"}
        THEN features[i][col].t # "absent"
        ELSE features[i][col] # Absent

\* Series.fillna("Nao informado")
fillna_KeepsMissing(v) == v
fillna(v) == IF Missing(v) THEN NaoInformado ELSE v

\* pd.to_numeric(errors="coerce").fillna(0)
to_numeric_fillna0(v) == IF v.t = "num" THEN v ELSE Num(0)

\* ac_agua7.py load_poligonos: the frame, one row per feature (idx: the
\* index of the row, the position of the feature), or KeyError
load_poligonos(features) ==
    IF ~HasColumn(features, "AREA_y") \/ ~HasColumn(features, "BAIRRO_COM")
    THEN [ok |-> FALSE, df |-> <<>>, gj |-> <<>>]
    ELSE [ok |-> TRUE,
          df |-> [i \in 1..Len(features) |->
                    [idx |-> i,
                     AREA_y |-> fillna(features[i].AREA_y),
                     BAIRRO_COM |-> fillna(features[i].BAIRRO_COM),
                     LABEL |-> features[i].LABEL,
                     N_domi |-> features[i].N_domi,
                     pop_estim1 |-> features[i].pop_estim1]],
          gj |-> <<>>]

\* ac_drenagem8.py load_data: the frame of the properties and the GeoJSON
load_data_drenagem(features) ==
    [ok |-> TRUE,
     df |-> [i \in 1..Len(features) |->
               [idx |-> i,
                AREA_y |-> fillna(features[i].AREA_y),
                BAIRRO_COM |-> fillna(features[i].BAIRRO_COM),
                LABEL |-> fillna(features[i].LABEL),
                N_domi |-> to_numeric_fillna0(features[i].N_domi),
                pop_estim1 |-> to_numeric_fillna0(features[i].pop_estim1)]],
     gj |-> [i \in 1..Len(features) |->
               [idx |-> i, AREA_y |-> features[i].AREA_y,
                BAIRRO_COM |-> features[i].BAIRRO_COM]]]

NoCache == [ok |-> FALSE, df |-> <<>>, gj |-> <<>>]

\* ------------------------------------------------------------------------
\* ac_agua7.py and ac_drenagem8.py: filters, indicators, charts and map
\* ------------------------------------------------------------------------
\* Series.sum(): NaN is skipped
RECURSIVE Sum(_, _)
Sum(df, col) ==
    IF df = <<>> THEN 0
    ELSE (IF Head(df)[col].t = "num" THEN Head(df)[col].n ELSE 0)
         + Sum(Tail(df), col)

\* Series.dropna().unique().tolist(), as the set of its values
Unique(df, col) == {df[i][col] : i \in 1..Len(df)} \ {None, Absent}

\* The options of the area selector (without the leading "Todas")
areas(df) == Unique(df, "AREA_y")

\* The options of the neighbourhood selector
bairros_disponiveis_AllRows(df, area) == Unique(df, "BAIRRO_COM")
bairros_disponiveis(df, area) ==
    IF area # Todas
    THEN Unique(SelectSeq(df, LAMBDA r : r.AREA_y = area),
                "BAIRRO_COM")
    ELSE Unique(df, "BAIRRO_COM")

\* df = df_all.copy(), then the two filters
filtered_NoAreaFilter(df, area, bairros_sel) ==
    IF bairros_sel # {}
    THEN SelectSeq(df, LAMBDA r : r.BAIRRO_COM \in bairros_sel) ELSE df
filtered(df, area, bairros_sel) ==
    LET byArea == IF area # Todas
                  THEN SelectSeq(df, LAMBDA r : r.AREA_y = area) ELSE df
    IN  IF bairros_sel # {}
        THEN SelectSeq(byArea, LAMBDA r : r.BAIRRO_COM \in bairros_sel)
        ELSE byArea

\* px.pie(df, names=col): the number of rows of each value of the column
pie(df, col) ==
    [v \in {df[i][col] : i \in 1..Len(df)} |->
        Cardinality({i \in 1..Len(df) : df[i][col] = v})]

\* ac_drenagem8.py _filter_geojson
norm(v) ==
    IF Missing(v) THEN NaoInformado
    ELSE IF strip(v) \in {<<>>, <<"n", "a", "n">>, <<"N", "o", "n", "e">>}
         THEN NaoInformado
         ELSE v

cond(props, area, bairros_sel) ==
    /\ ~(area # Todas /\ norm(props.AREA_y) # area)
    /\ ~(bairros_sel # {} /\ norm(props.BAIRRO_COM) \notin bairros_sel)

filter_geojson(gj, area, bairros_sel) ==
    SelectSeq(gj, LAMBDA f : cond(f, area, bairros_sel))

\* The indices of the rows or features of a frame
Indices(df) == [i \in 1..Len(df) |-> df[i].idx]

\* The map: the polygons drawn, or the warning when there is none
MapOf(shown) ==
    IF shown # <<>> THEN [warning |-> FALSE, polygons |-> shown]
    ELSE [warning |-> TRUE, polygons |-> <<>>]

\* st.cache_data hands the script a copy of what it holds: what the script
\* does with the frame leaves the cached value as it is
after_run_FilterInPlace(cached, df) == [cached EXCEPT !.df = df]
after_run(cached, df) == cached

\* st.multiselect keeps its value while its options are the same, and
\* starts from its default, nothing selected, when they differ
multiselect(options, before, value) ==
    IF options = before THEN value \cap options ELSE {}

\* One run of the script, top to bottom, with the widget values w
Page(a, data, w, before) ==
    LET opts == bairros_disponiveis(data.df, w.area)
        sel == multiselect(opts, before, w.bairros_sel)
        df == filtered(data.df, w.area, sel)
    IN  [status |-> "ok",
         areas |-> {Todas} \cup areas(data.df),
         bairros |-> opts,
         area |-> w.area,
         bairros_sel |-> sel,
         rows |-> Indices(df),
         n_domi |-> Sum(df, "N_domi"),
         pop |-> Sum(df, "pop_estim1"),
         pies |-> pie(df, "LABEL"),
         map |-> IF a = "agua" THEN MapOf(Indices(df))
                 ELSE MapOf(Indices(filter_geojson(data.gj, w.area, sel)))]

\* The page of a run that ended in an exception of the loader
ErrorPage ==
    [status |-> "error", areas |-> {}, bairros |-> {}, area |-> Todas,
     bairros_sel |-> {}, rows |-> <<>>, n_domi |-> 0, pop |-> 0,
     pies |-> <<>>, map |-> MapOf(<<>>)]

\* The page before the first run
NoPage == [ErrorPage EXCEPT !.status = "none"]

Loader(a, features) ==
    IF a = "agua" THEN load_poligonos(features)
    ELSE load_data_drenagem(features)

\* A run: the loader is called unless its result is cached, an exception of
\* the loader is not cached, and the page is built from the loaded data
Run(w) ==
    LET data == IF cache.ok THEN cache ELSE Loader(app, file)
        page == Page(app, data, w, rendered.bairros)
    IN  IF ~data.ok
        THEN /\ rendered' = ErrorPage
             /\ UNCHANGED <<cache, widgets>>
        ELSE /\ rendered' = page
             /\ cache' = after_run(data,
                                   filtered(data.df, page.area,
                                            page.bairros_sel))
             /\ widgets' = [area |-> page.area,
                            bairros_sel |-> page.bairros_sel]

\* The browser opens or reloads the page
Rerun ==
    /\ app \in {"agua", "drenagem"}
    /\ Run(widgets)
    /\ UNCHANGED <<app, file, coordVars, serverVars>>

\* The user picks an area among those offered
ChangeArea ==
    /\ app \in {"agua", "drenagem"}
    /\ rendered.status = "ok"
    /\ \E a \in rendered.areas : Run([widgets EXCEPT !.area = a])
    /\ UNCHANGED <<app, file, coordVars, serverVars>>

\* The user picks neighbourhoods among those offered
ChangeBairros ==
    /\ app \in {"agua", "drenagem"}
    /\ rendered.status = "ok"
    /\ \E sel \in SUBSET rendered.bairros :
          Run([widgets EXCEPT !.bairros_sel = sel])
    /\ UNCHANGED <<app, file, coordVars, serverVars>>

InitBairros ==
    /\ ServerIdle
    /\ coordenadas = NoRequest
    /\ coords = <<>>
    /\ app \in {"agua", "drenagem"}
    /\ file \in FilesOf(IF app = "agua" THEN FeaturesAgua
                        ELSE FeaturesDrenagem)
    /\ cache = NoCache
    /\ widgets = [area |-> Todas, bairros_sel |-> {}]
    /\ rendered = NoPage

NextBairros == Rerun \/ ChangeArea \/ ChangeBairros

SpecBairros == InitBairros /\ [][NextBairros]_vars

\* ------------------------------------------------------------------------
\* agro.py and agro3.py: data, filter and cleaning
\* ------------------------------------------------------------------------
\* Coordinates are whole millionths of a degree, and lengths are counted in
\* ticks, Ticks to the millionth, so that a tenth of a range and the steps of
\* a grid are whole numbers.
Ticks == 6 * 10
RangeFloor == 1
Todos == <<"Todos">>
NaN == <<"NaN">>

Sample(t, la, lo, n) ==
    [Talhao |-> t, Latitude |-> la, Longitude |-> lo, N |-> n]

\* The rows a spreadsheet is made of: a cell of the Talhao column is a text
\* or empty (NaN), a numeric cell is a number, empty or a text
Samples ==
    {Sample(<<"A", ".", "1">>, Num(0), Num(0), Num(1)),
     Sample(<<"A", "b", "1">>, Num(10), Num(0), Num(2)),
     Sample(<<"x", "a", ".", "1">>, Num(10), Num(10), Num(3)),
     Sample(<<"B">>, Num(0), TextNum, NullNum),
     Sample(NaN, Num(0), Num(0), Num(2))}

\* A polygon of the shapefile: its name and its rectangle
Lote(nome, minx, miny, maxx, maxy) ==
    [nome |-> nome, minx |-> minx * Ticks, miny |-> miny * Ticks,
     maxx |-> maxx * Ticks, maxy |-> maxy * Ticks]

\* The shapefiles: none that can be read (<<>>), one polygon, polygons none
\* of which is of a talhao of the samples but the second, two polygons of
\* names that contain "a.1". The polygons of one file do not touch.
Shapefiles ==
    {<<>>,
     <<Lote(<<"A", ".", "1">>, -5, -5, 5, 5)>>,
     <<Lote(<<"C">>, -5, -5, 20, 20), Lote(<<"B">>, 30, 30, 40, 40)>>,
     <<Lote(<<"A", ".", "1">>, -5, -5, 5, 5),
       Lote(<<"x", "a", ".", "1">>, 8, 8, 12, 12)>>}

\* Series.astype(str): an empty cell reads 'nan'
astype_str(v) == IF v = NaN THEN <<"n", "a", "n">> ELSE v

\* Series.str.contains(pat, case=False, na=False): pat is a regular
\* expression, searched for anywhere in the text; in a pattern of letters,
\* digits and '.', a '.' stands for any character
contains(text, pat) ==
    \E i \in 0..(Len(text) - Len(pat)) :
        \A k \in 1..Len(pat) :
            pat[k] = "." \/ lower(pat)[k] = lower(text)[i + k]

\* load_data: the rows, each with its index
load_data(rows) ==
    [i \in 1..Len(rows) |->
        [idx |-> i, Talhao |-> rows[i].Talhao, Latitude |-> rows[i].Latitude,
         Longitude |-> rows[i].Longitude, N |-> rows[i].N]]

\* ['Todos'] + sorted(map(str, df['Talhao'].dropna().unique().tolist()))
talhoes_disponiveis(df) ==
    {Todos} \cup ({df[i].Talhao : i \in 1..Len(df)} \ {NaN})

df_filtrado_Equal(df, talhao_selecionado) ==
    IF talhao_selecionado = Todos THEN df
    ELSE SelectSeq(df, LAMBDA r : astype_str(r.Talhao) = talhao_selecionado)
df_filtrado(df, talhao_selecionado) ==
    IF talhao_selecionado = Todos THEN df
    ELSE SelectSeq(df, LAMBDA r :
                          contains(astype_str(r.Talhao), talhao_selecionado))

\* dropna, pd.to_numeric(errors='coerce'), dropna on the three columns
df_clean(df) ==
    SelectSeq(df, LAMBDA r : /\ r.Latitude.t = "num"
                             /\ r.Longitude.t = "num"
                             /\ r.N.t = "num")

\* The sum of N over the rows at a point
RECURSIVE SumOfAt(_, _, _)
SumOfAt(df, la, lo) ==
    IF df = <<>> THEN 0
    ELSE (IF Head(df).Latitude.n = la /\ Head(df).Longitude.n = lo
          THEN Head(df).N.n ELSE 0) + SumOfAt(Tail(df), la, lo)

\* groupby([lat, lon]).mean(): per point, the sum and the number of values
df_agregado(df) ==
    {[lat |-> df[i].Latitude.n, lon |-> df[i].Longitude.n,
      sum |-> SumOfAt(df, df[i].Latitude.n, df[i].Longitude.n),
      n |-> Cardinality({j \in 1..Len(df) :
                            /\ df[j].Latitude.n = df[i].Latitude.n
                            /\ df[j].Longitude.n = df[i].Longitude.n})] :
        i \in 1..Len(df)}

\* ------------------------------------------------------------------------
\* agro.py and agro3.py: grid, mask, interpolation and page
\* ------------------------------------------------------------------------
SetMin(S) == CHOOSE x \in S : \A y \in S : x <= y
SetMax(S) == CHOOSE x \in S : \A y \in S : x >= y

\* The extent of the points, each side moved out by a tenth of the range,
\* a range counted as RangeFloor millionths at least
sample_extent(points) ==
    LET lat_min == SetMin({q.lat * Ticks : q \in points})
        lat_max == SetMax({q.lat * Ticks : q \in points})
        lon_min == SetMin({q.lon * Ticks : q \in points})
        lon_max == SetMax({q.lon * Ticks : q \in points})
        lat_range == SetMax({lat_max - lat_min, RangeFloor * Ticks})
        lon_range == SetMax({lon_max - lon_min, RangeFloor * Ticks})
    IN  [minx |-> lon_min - lon_range \div 10,
         miny |-> lat_min - lat_range \div 10,
         maxx |-> lon_max + lon_range \div 10,
         maxy |-> lat_max + lat_range \div 10]

\* np.linspace(start, stop, num)
linspace(start, stop, num) ==
    [k \in 1..num |-> start + ((k - 1) * (stop - start)) \div (num - 1)]

\* The polygons whose name matches the selected talhao, the first polygon
\* of the file when none does
gdf_poly(gdf_talhoes, talhao_selecionado) ==
    LET found == SelectSeq(gdf_talhoes,
                           LAMBDA g : contains(g.nome, talhao_selecionado))
    IN  IF found = <<>> THEN <<gdf_talhoes[1]>> ELSE found

\* geometry.unary_union of polygons that do not touch: their rectangles
unary_union(gdf) ==
    {[minx |-> gdf[i].minx, miny |-> gdf[i].miny,
      maxx |-> gdf[i].maxx, maxy |-> gdf[i].maxy] : i \in 1..Len(gdf)}

\* poly.bounds
bounds(poly) ==
    [minx |-> SetMin({r.minx : r \in poly}),
     miny |-> SetMin({r.miny : r \in poly}),
     maxx |-> SetMax({r.maxx : r \in poly}),
     maxy |-> SetMax({r.maxy : r \in poly})]

\* vectorized.contains(poly, x, y): the point is in the interior
vectorized_contains(poly, x, y) ==
    \E r \in poly : r.minx < x /\ x < r.maxx /\ r.miny < y /\ y < r.maxy

\* The mask over the mesh: mask[i][j] is of the cell at lat_grid[i],
\* lon_grid[j]
mask_AllOnes(usar_mascara, poly, lon_grid, lat_grid) ==
    [i \in 1..Len(lat_grid) |-> [j \in 1..Len(lon_grid) |-> TRUE]]
mask(usar_mascara, poly, lon_grid, lat_grid) ==
    [i \in 1..Len(lat_grid) |-> [j \in 1..Len(lon_grid) |->
        IF usar_mascara
        THEN vectorized_contains(poly, lon_grid[j], lat_grid[i])
        ELSE TRUE]]

\* np.where(mask, z, np.nan), the surface being finite everywhere
z_masked(m) ==
    [i \in DOMAIN m |-> [j \in DOMAIN m[i] |->
        IF m[i][j] THEN "finite" ELSE "nan"]]

\* The alpha channel of the overlay, in hundredths
alpha(z) ==
    [i \in DOMAIN z |-> [j \in DOMAIN z[i] |->
        IF z[i][j] = "finite" THEN 78 ELSE 0]]

\* The calls of interp_with_fallback of a run, in order, each with its
\* method and whether it returned a surface; raises[k] tells whether the
\* k-th call of griddata raises
interp_chain_NearestOnly(metodo_interpolacao, raises) ==
    LET first == <<[method |-> metodo_interpolacao, ok |-> ~raises[1]]>>
    IN  IF first[1].ok THEN first
        ELSE Append(first, [method |-> "nearest", ok |-> ~raises[2]])
interp_chain(metodo_interpolacao, raises) ==
    LET first == <<[method |-> metodo_interpolacao, ok |-> ~raises[1]]>>
        second == IF metodo_interpolacao # "linear"
                  THEN Append(first,
                              [method |-> "linear", ok |-> ~raises[2]])
                  ELSE first
    IN  IF first[1].ok THEN first
        ELSE IF second[Len(second)].ok THEN second
        ELSE Append(second, [method |-> "nearest",
                             ok |-> ~raises[Len(second) + 1]])

\* The methods and the grid sizes the sidebar offers; the sizes stand for
\* those of the slider
Metodos(a) == IF a = "agro" THEN {"linear", "cubic", "nearest"}
              ELSE {"rbf", "idw"}
Resolucoes == {2, 3}

AgroBlank ==
    [status |-> "none", talhoes |-> {}, talhao |-> Todos, metodo |-> "",
     rows |-> <<>>, points |-> {}, usar_mascara |-> FALSE, poly |-> {},
     lon_grid |-> <<>>, lat_grid |-> <<>>, attempts |-> <<>>,
     used_method |-> "", z |-> <<>>, rgba |-> <<>>]

\* A run of the script over the loaded data with the widget values w
AgroPage(a, data, w, raises) ==
    LET df == data.df
        filtrado == df_filtrado(df, w.talhao)
        clean == df_clean(filtrado)
        points == df_agregado(clean)
        usar_mascara == a = "agro3" /\ data.gj # <<>> /\ w.talhao # Todos
        poly == IF usar_mascara
                THEN unary_union(gdf_poly(data.gj, w.talhao)) ELSE {}
        box == IF usar_mascara THEN bounds(poly) ELSE sample_extent(points)
        lat_grid == linspace(box.miny, box.maxy, w.resolucao)
        lon_grid == linspace(box.minx, box.maxx, w.resolucao)
        attempts == IF a = "agro" THEN interp_chain(w.metodo, raises)
                    ELSE <<[method |-> w.metodo, ok |-> TRUE]>>
        last == attempts[Len(attempts)]
        z == z_masked(mask(usar_mascara, poly, lon_grid, lat_grid))
        head == [AgroBlank EXCEPT !.talhoes = talhoes_disponiveis(df),
                                  !.talhao = w.talhao,
                                  !.metodo = w.metodo,
                                  !.rows = [i \in 1..Len(filtrado) |->
                                               filtrado[i].idx]]
        grid == [head EXCEPT !.points = points,
                             !.usar_mascara = usar_mascara,
                             !.poly = poly,
                             !.lon_grid = lon_grid,
                             !.lat_grid = lat_grid,
                             !.attempts = attempts]
    IN  IF filtrado = <<>> THEN [head EXCEPT !.status = "warning:filtros"]
        ELSE IF clean = <<>> THEN [head EXCEPT !.status = "warning:limpeza"]
        ELSE IF ~last.ok THEN [grid EXCEPT !.status = "error:interpolacao"]
        ELSE [grid EXCEPT !.status = "ok",
                          !.used_method = last.method,
                          !.z = z,
                          !.rgba = alpha(z)]

AgroError == [AgroBlank EXCEPT !.status = "error"]

\* The spreadsheet and, for agro3.py, the shapefile
AgroFiles(a) ==
    [readable : {TRUE},
     rows : UNION {[1..n -> Samples] : n \in 0..MaxSamples},
     shp : IF a = "agro3" THEN Shapefiles ELSE {<<>>}]
    \cup [readable : {FALSE}, rows : {<<>>},
          shp : IF a = "agro3" THEN Shapefiles ELSE {<<>>}]

\* load_data and load_talhoes: a file that cannot be read raises
AgroLoader(a, f) ==
    [ok |-> f.readable,
     df |-> IF f.readable THEN load_data(f.rows) ELSE <<>>,
     gj |-> f.shp]

\* A run: a loader is called unless its result is cached; griddata is
\* called by agro.py alone
AgroRun(w) ==
    \E raises \in IF app = "agro" THEN [1..3 -> BOOLEAN]
                  ELSE {[k \in 1..3 |-> FALSE]} :
        LET loaded == AgroLoader(app, file)
            data == [ok |-> IF cache.ok THEN TRUE ELSE loaded.ok,
                     df |-> IF cache.ok THEN cache.df ELSE loaded.df,
                     gj |-> IF cache.gj # <<>> THEN cache.gj ELSE loaded.gj]
        IN  /\ rendered' = IF data.ok THEN AgroPage(app, data, w, raises)
                           ELSE AgroError
            /\ cache' = data
            /\ widgets' = w

AgroRerun ==
    /\ app \in {"agro", "agro3"}
    /\ AgroRun(widgets)
    /\ UNCHANGED <<app, file, coordVars, serverVars>>

ChangeTalhao ==
    /\ app \in {"agro", "agro3"}
    /\ rendered.status \notin {"none", "error"}
    /\ \E t \in rendered.talhoes : AgroRun([widgets EXCEPT !.talhao = t])
    /\ UNCHANGED <<app, file, coordVars, serverVars>>

ChangeMetodo ==
    /\ app \in {"agro", "agro3"}
    /\ rendered.status \notin {"none", "error"}
    /\ \E m \in Metodos(app) : AgroRun([widgets EXCEPT !.metodo = m])
    /\ UNCHANGED <<app, file, coordVars, serverVars>>

ChangeResolucao ==
    /\ app \in {"agro", "agro3"}
    /\ rendered.status \notin {"none", "error"}
    /\ \E n \in Resolucoes : AgroRun([widgets EXCEPT !.resolucao = n])
    /\ UNCHANGED <<app, file, coordVars, serverVars>>

InitAgro ==
    /\ ServerIdle
    /\ coordenadas = NoRequest
    /\ coords = <<>>
    /\ app \in {"agro", "agro3"}
    /\ file \in AgroFiles(app)
    /\ cache = NoCache
    /\ widgets = [talhao |-> Todos,
                  metodo |-> IF app = "agro" THEN "linear" ELSE "rbf",
                  resolucao |-> 2]
    /\ rendered = AgroBlank

NextAgro == AgroRerun \/ ChangeTalhao \/ ChangeMetodo \/ ChangeResolucao

SpecAgro == InitAgro /\ [][NextAgro]_vars

\* ------------------------------------------------------------------------
\* locais_postes.py
\* ------------------------------------------------------------------------
Nenhum == <<"Nenhum">>

\* A cell of the Potencia_ column: a whole number or a text
PNum(n) == [t |-> "num", n |-> n, s |-> <<>>]
PText(s) == [t |-> "text", n |-> 0, s |-> s]

Poste(b, p, l) == [Bairro |-> b, Potencia |-> p, Lampada |-> l]

\* The rows a spreadsheet of poles is made of
Postes ==
    {Poste(<<"C">>, PNum(60), <<"S">>),
     Poste(<<"C">>, PNum(100), <<"N">>),
     Poste(<<"V">>, PText(<<"1", "0", "0">>), <<"S">>),
     Poste(<<"V">>, PNum(60), NaN)}

\* The neighbourhoods of BAIRROS.shp
Bairros == <<<<"C">>, <<"V">>>>

\* The source: whether it can be downloaded and read, whether the sheet has
\* the five columns, and its rows
PostesFiles ==
    [readable : BOOLEAN, columns : {TRUE},
     rows : UNION {[1..n -> Postes] : n \in 0..MaxPostes}]
    \cup [readable : BOOLEAN, columns : {FALSE}, rows : {<<>>}]

PostesNoCache == [hit |-> FALSE, ok |-> FALSE, df |-> <<>>, gj |-> <<>>]

\* load_poste_data: the tables, or (None, None) after an exception
load_poste_data(f) ==
    IF f.readable
    THEN [hit |-> TRUE, ok |-> TRUE,
          df |-> [i \in 1..Len(f.rows) |->
                     [idx |-> i, Bairro |-> f.rows[i].Bairro,
                      Potencia |-> f.rows[i].Potencia,
                      Lampada |-> f.rows[i].Lampada]],
          gj |-> Bairros]
    ELSE [hit |-> TRUE, ok |-> FALSE, df |-> <<>>, gj |-> <<>>]

\* str(x) of a cell of Potencia_
str_potencia(x) == IF x.t = "num" THEN IntText(x.n) ELSE x.s

\* int(text) of a text of digits
RECURSIVE int(_)
int(text) ==
    IF text = <<>> THEN 0
    ELSE 10 * int(SubSeq(text, 1, Len(text) - 1)) + DigitVal(text[Len(text)])

\* The value compared with the column: int(text), the text itself when int
\* raises ValueError; a text of the model has no '.'
potencia_valor(text) ==
    IF AllDigits(text) THEN PNum(int(text)) ELSE PText(text)

\* st.selectbox keeps its value while its options are the same, and starts
\* from its first option, "Nenhum", when they differ
selectbox(options, before, value) ==
    IF options = before /\ value \in options THEN value ELSE Nenhum

df_filtro_bairro(df, bairro_selecionado) ==
    IF bairro_selecionado = Nenhum THEN df
    ELSE SelectSeq(df, LAMBDA r : r.Bairro = bairro_selecionado)

opcoes_potencia(df) ==
    {Nenhum} \cup {str_potencia(df[i].Potencia) : i \in 1..Len(df)}

opcoes_lampada(df) ==
    {Nenhum} \cup {astype_str(df[i].Lampada) : i \in 1..Len(df)}

df_filtrado_postes(df, potencia_selecionada, lampada_selecionada) ==
    LET by_potencia ==
            IF potencia_selecionada = Nenhum THEN df
            ELSE SelectSeq(df, LAMBDA r :
                     r.Potencia = potencia_valor(potencia_selecionada))
    IN  IF lampada_selecionada = Nenhum THEN by_potencia
        ELSE SelectSeq(by_potencia, LAMBDA r :
                 astype_str(r.Lampada) = lampada_selecionada)

\* value_counts of the Bairro column
value_counts(df) ==
    [b \in {df[i].Bairro : i \in 1..Len(df)} |->
        Cardinality({i \in 1..Len(df) : df[i].Bairro = b})]

PostesBlank ==
    [status |-> "none", opcoes_bairros |-> {}, opcoes_potencia |-> {},
     opcoes_lampada |-> {}, bairro |-> Nenhum, potencia |-> Nenhum,
     lampada |-> Nenhum, rows |-> <<>>, total |-> 0, limites |-> <<>>,
     por_bairro |-> <<>>]

\* One run of main over the loaded tables with the widget values w; before
\* is the page of the run before
PostesPage(data, w, before) ==
    LET df == data.df
        bairros == {Nenhum} \cup {df[i].Bairro : i \in 1..Len(df)}
        bairro == selectbox(bairros, before.opcoes_bairros, w.bairro)
        do_bairro == df_filtro_bairro(df, bairro)
        potencias == opcoes_potencia(do_bairro)
        potencia == selectbox(potencias, before.opcoes_potencia, w.potencia)
        lampadas == opcoes_lampada(do_bairro)
        lampada == selectbox(lampadas, before.opcoes_lampada, w.lampada)
        filtrado == df_filtrado_postes(do_bairro, potencia, lampada)
    IN  [status |-> "ok", opcoes_bairros |-> bairros,
         opcoes_potencia |-> potencias, opcoes_lampada |-> lampadas,
         bairro |-> bairro, potencia |-> potencia, lampada |-> lampada,
         rows |-> Indices(filtrado), total |-> Len(filtrado),
         limites |-> IF w.show_boundaries THEN data.gj ELSE <<>>,
         por_bairro |-> value_counts(filtrado)]

\* A run: the loader is called unless its result, (None, None) included, is
\* cached
PostesRun(w, f) ==
    LET data == IF cache.hit THEN cache ELSE load_poste_data(f)
        page == PostesPage(data, w, rendered)
    IN  /\ cache' = data
        /\ IF ~data.ok
           THEN /\ rendered' = [PostesBlank EXCEPT !.status = "error:carregar"]
                /\ widgets' = w
           ELSE IF ~f.columns
           THEN /\ rendered' = [PostesBlank EXCEPT !.status = "error:colunas"]
                /\ widgets' = w
           ELSE /\ rendered' = page
                /\ widgets' = [w EXCEPT !.bairro = page.bairro,
                                        !.potencia = page.potencia,
                                        !.lampada = page.lampada]

PostesRerun ==
    /\ app = "postes"
    /\ PostesRun(widgets, file)
    /\ UNCHANGED <<app, file, coordVars, serverVars>>

ChangeBairro ==
    /\ app = "postes"
    /\ rendered.status = "ok"
    /\ \E b \in rendered.opcoes_bairros :
          PostesRun([widgets EXCEPT !.bairro = b], file)
    /\ UNCHANGED <<app, file, coordVars, serverVars>>

ChangePotencia ==
    /\ app = "postes"
    /\ rendered.status = "ok"
    /\ \E x \in rendered.opcoes_potencia :
          PostesRun([widgets EXCEPT !.potencia = x], file)
    /\ UNCHANGED <<app, file, coordVars, serverVars>>

ChangeLampada ==
    /\ app = "postes"
    /\ rendered.status = "ok"
    /\ \E l \in rendered.opcoes_lampada :
          PostesRun([widgets EXCEPT !.lampada = l], file)
    /\ UNCHANGED <<app, file, coordVars, serverVars>>

ToggleBoundaries ==
    /\ app = "postes"
    /\ rendered.status = "ok"
    /\ PostesRun([widgets EXCEPT !.show_boundaries = ~@], file)
    /\ UNCHANGED <<app, file, coordVars, serverVars>>

\* The hour of the cache entry is over
Expire ==
    /\ app = "postes"
    /\ cache.hit
    /\ cache' = PostesNoCache
    /\ UNCHANGED <<app, file, widgets, rendered, coordVars, serverVars>>

\* The source becomes reachable, or stops being so
Network ==
    /\ app = "postes"
    /\ file' = [file EXCEPT !.readable = ~@]
    /\ UNCHANGED <<app, cache, widgets, rendered, coordVars, serverVars>>

InitPostes ==
    /\ ServerIdle
    /\ coordenadas = NoRequest
    /\ coords = <<>>
    /\ app = "postes"
    /\ file \in PostesFiles
    /\ cache = PostesNoCache
    /\ widgets = [bairro |-> Nenhum, potencia |-> Nenhum,
                  lampada |-> Nenhum, show_boundaries |-> TRUE]
    /\ rendered = PostesBlank

NextPostes ==
    \/ PostesRerun \/ ChangeBairro \/ ChangePotencia \/ ChangeLampada
    \/ ToggleBoundaries \/ Expire \/ Network

SpecPostes == InitPostes /\ [][NextPostes]_vars

\* ------------------------------------------------------------------------
\* The five dashboards
\* ------------------------------------------------------------------------
InitDashboards == InitBairros \/ InitAgro \/ InitPostes

NextDashboards == NextBairros \/ NextAgro \/ NextPostes

SpecDashboards == InitDashboards /\ [][NextDashboards]_vars

\* ------------------------------------------------------------------------
\* Claim about the five dashboards
\* ------------------------------------------------------------------------
\* The tables load_poste_data returns when the source can be read
PostesLoaded == load_poste_data([file EXCEPT !.readable = TRUE])

AgroRan == app \in {"agro", "agro3"} /\ rendered.status \notin {"none", "error"}

\* The text holds the selected text, case ignored
ContainsText(text, sel) ==
    \E i \in 0..(Len(text) - Len(sel)) :
        \A k \in 1..Len(sel) : lower(sel)[k] = lower(text)[i + k]

\* The indices of the rows of the file whose Talhao, read as text, holds sel
RowsHolding(sel) ==
    LET Keep(i) == ContainsText(astype_str(file.rows[i].Talhao), sel)
        F[i \in 0..Len(file.rows)] ==
            IF i = 0 THEN <<>>
            ELSE IF Keep(i) THEN Append(F[i - 1], i) ELSE F[i - 1]
    IN  F[Len(file.rows)]

\* C10: with a talhao selected the filtered rows are exactly the loaded rows
\* whose Talhao, read as text, holds the selected text, case ignored; with
\* 'Todos' every loaded row is kept
C10_SubstringFilter ==
    AgroRan =>
        rendered.rows = IF rendered.talhao = Todos
                        THEN [i \in 1..Len(file.rows) |-> i]
                        ELSE RowsHolding(rendered.talhao)

\* The methods interp_with_fallback is to be called with, in order
Chain(metodo) ==
    IF metodo = "linear" THEN <<"linear", "nearest">>
    ELSE <<metodo, "linear", "nearest">>

\* The run of agro.py came to the interpolation
Interpolated ==
    app = "agro" /\ rendered.status \in {"ok", "error:interpolacao"}

\* C8: in agro.py the selected method is tried first, then 'linear' unless it
\* was the selected one, then 'nearest'; an attempt is made only when all
\* before it failed; the first that succeeds gives the surface; the error is
\* shown, and no chart, only when every attempt failed
C8_FallbackChain ==
    Interpolated =>
        LET a == rendered.attempts
            chain == Chain(rendered.metodo)
        IN  /\ Len(a) \in 1..Len(chain)
            /\ \A k \in 1..Len(a) : a[k].method = chain[k]
            /\ \A k \in 1..(Len(a) - 1) : ~a[k].ok
            /\ ~a[Len(a)].ok => Len(a) = Len(chain)
            /\ rendered.status = "ok" <=> a[Len(a)].ok
            /\ rendered.status = "ok" =>
                  /\ rendered.used_method = a[Len(a)].method
                  /\ rendered.z # <<>>
            /\ rendered.status = "error:interpolacao" => rendered.z = <<>>

\* 'cubic' and 'linear' failed and 'nearest' gave the surface
C8_Witness ==
    /\ Interpolated
    /\ rendered.status = "ok"
    /\ rendered.metodo = "cubic"
    /\ Len(rendered.attempts) = 3
    /\ rendered.used_method = "nearest"

\* The extent of the points moved out on each side by a tenth of its range,
\* the range counted as floor at least
Expanded(points, floor) ==
    LET lats == {q.lat * Ticks : q \in points}
        lons == {q.lon * Ticks : q \in points}
        AtLeast(r) == IF r < floor THEN floor ELSE r
        dlat == AtLeast(SetMax(lats) - SetMin(lats))
        dlon == AtLeast(SetMax(lons) - SetMin(lons))
    IN  [minx |-> SetMin(lons) - dlon \div 10,
         miny |-> SetMin(lats) - dlat \div 10,
         maxx |-> SetMax(lons) + dlon \div 10,
         maxy |-> SetMax(lats) + dlat \div 10]

\* The grid goes from one side of the box to the other
Spans(box) ==
    /\ rendered.lon_grid[1] = box.minx
    /\ rendered.lon_grid[Len(rendered.lon_grid)] = box.maxx
    /\ rendered.lat_grid[1] = box.miny
    /\ rendered.lat_grid[Len(rendered.lat_grid)] = box.maxy

\* The bounding box of a set of polygons of the shapefile
BoxOf(S) ==
    [minx |-> SetMin({file.shp[i].minx : i \in S}),
     miny |-> SetMin({file.shp[i].miny : i \in S}),
     maxx |-> SetMax({file.shp[i].maxx : i \in S}),
     maxy |-> SetMax({file.shp[i].maxy : i \in S})]

\* The cell at lat_grid[i], lon_grid[j] is inside a polygon among S
Inside(S, i, j) ==
    \E k \in S :
        /\ file.shp[k].minx < rendered.lon_grid[j]
        /\ rendered.lon_grid[j] < file.shp[k].maxx
        /\ file.shp[k].miny < rendered.lat_grid[i]
        /\ rendered.lat_grid[i] < file.shp[k].maxy

Cells == (DOMAIN rendered.lat_grid) \X (DOMAIN rendered.lon_grid)

\* The polygons of the selected talhao: those whose name matches it, the
\* first of the file when none does
TalhaoPolygons ==
    LET found == {k \in DOMAIN file.shp :
                     contains(file.shp[k].nome, rendered.talhao)}
    IN  IF found = {} THEN {1} ELSE found

Masked == rendered.talhao # Todos /\ file.shp # <<>>

\* The grid and the mask of a run of agro3.py, the range of the points
\* counted as floor at least
GridAndMask(floor) ==
    (app = "agro3" /\ rendered.status = "ok") =>
        IF Masked
        THEN /\ Spans(BoxOf(TalhaoPolygons))
             /\ \A c \in Cells :
                   ~Inside(TalhaoPolygons, c[1], c[2]) =>
                       /\ rendered.z[c[1]][c[2]] = "nan"
                       /\ rendered.rgba[c[1]][c[2]] = 0
        ELSE /\ Spans(Expanded(rendered.points, floor))
             /\ \A c \in Cells : rendered.z[c[1]][c[2]] # "nan"

\* C9 as stated: without a mask the grid spans the extent of the points moved
\* out by a tenth of its range, whatever the range
C9_GridOfRange == GridAndMask(0)

\* C9: in agro3.py, with a talhao selected and the shapefile loaded, the grid
\* spans the bounding box of the polygons of the talhao and every cell outside
\* them is NaN in the masked surface and transparent in the overlay; with
\* 'Todos' or no shapefile no cell is masked and the grid spans the extent of
\* the points moved out by a tenth of its range, a range under a millionth of
\* a degree counted as a millionth
C9_GridAndMask == GridAndMask(RangeFloor * Ticks)

\* A masked run with a cell inside the polygon and a cell outside it
C9_Witness ==
    /\ app = "agro3"
    /\ rendered.status = "ok"
    /\ Masked
    /\ \E c \in Cells : rendered.z[c[1]][c[2]] = "nan"
    /\ \E c \in Cells : rendered.z[c[1]][c[2]] = "finite"

\* ------------------------------------------------------------------------
\* Claims about the water and drainage dashboards
\* ------------------------------------------------------------------------
\* The loaded rows a selection of area and neighbourhoods is about
InArea(r, area) == area = Todas \/ r.AREA_y = area
InSelection(r, area, sel) ==
    InArea(r, area) /\ (sel = {} \/ r.BAIRRO_COM \in sel)

\* C5: the neighbourhoods offered are exactly the BAIRRO_COM values of the
\* loaded rows of the selected area (of all rows with 'Todas'), and every
\* chosen neighbourhood has a row in the filtered table.
C5_DependentSelector ==
    rendered.status = "ok" =>
        /\ rendered.bairros =
              {cache.df[i].BAIRRO_COM :
                  i \in {j \in 1..Len(cache.df) :
                            InArea(cache.df[j], rendered.area)}}
        /\ \A b \in rendered.bairros_sel :
              \E k \in 1..Len(rendered.rows) :
                  /\ cache.df[rendered.rows[k]].BAIRRO_COM = b
                  /\ InArea(cache.df[rendered.rows[k]], rendered.area)

\* C5 witness: a neighbourhood name found in two areas is chosen under one
\* of them, and the other area has a neighbourhood that is not offered
C5_Witness ==
    /\ rendered.status = "ok"
    /\ rendered.area = <<"S">>
    /\ rendered.bairros_sel = {<<"x">>}
    /\ \E i \in 1..Len(cache.df) :
          cache.df[i].AREA_y = <<"N">> /\ cache.df[i].BAIRRO_COM = <<"x">>
    /\ \E i \in 1..Len(cache.df) :
          cache.df[i].BAIRRO_COM \notin rendered.bairros

\* The sum of a numeric column over the rows of the given indices
RECURSIVE SumOver(_, _, _)
SumOver(df, I, col) ==
    IF I = {} THEN 0
    ELSE LET i == CHOOSE j \in I : TRUE
         IN  (IF df[i][col].t = "num" THEN df[i][col].n ELSE 0)
             + SumOver(df, I \ {i}, col)

\* C6: the filtered table is exactly the loaded rows of the selected area
\* and neighbourhoods, and the two indicators are the sums over those rows.
C6_FilteredTable ==
    rendered.status = "ok" =>
        LET I == {i \in 1..Len(cache.df) :
                     InSelection(cache.df[i], rendered.area,
                                 rendered.bairros_sel)}
        IN  /\ Range(rendered.rows) = I
            /\ Len(rendered.rows) = Cardinality(I)
            /\ rendered.n_domi = SumOver(cache.df, I, "N_domi")
            /\ rendered.pop = SumOver(cache.df, I, "pop_estim1")

\* C6 witness: an area and a neighbourhood are selected, a loaded row of
\* that neighbourhood lies in another area, and the table is not empty
C6_Witness ==
    /\ rendered.status = "ok"
    /\ rendered.area # Todas
    /\ rendered.bairros_sel # {}
    /\ rendered.rows # <<>>
    /\ rendered.n_domi > 0
    /\ \E i \in 1..Len(cache.df) :
          /\ cache.df[i].BAIRRO_COM \in rendered.bairros_sel
          /\ cache.df[i].AREA_y # rendered.area

\* C7: after loading no row has a missing AREA_y or BAIRRO_COM, a missing
\* value being replaced by the sentinel; in the drainage dashboard the same
\* holds of the label columns, and a missing or non-numeric N_domi or
\* pop_estim1 is 0; the selectors offer no missing value.
C7_NoMissingAfterLoad ==
    cache.ok =>
        /\ Len(cache.df) = Len(file)
        /\ \A i \in 1..Len(file) :
              /\ \A col \in {"AREA_y", "BAIRRO_COM"} :
                    cache.df[i][col] =
                        IF file[i][col] \in {None, Absent}
                        THEN NaoInformado ELSE file[i][col]
              /\ app = "drenagem" =>
                    /\ cache.df[i].LABEL =
                          IF file[i].LABEL \in {None, Absent}
                          THEN NaoInformado ELSE file[i].LABEL
                    /\ \A col \in {"N_domi", "pop_estim1"} :
                          cache.df[i][col] =
                              IF file[i][col].t = "num"
                              THEN file[i][col] ELSE Num(0)
        /\ rendered.status = "ok" =>
              (rendered.areas \cup rendered.bairros)
                  \cap {None, Absent} = {}

\* C7 witness: the drainage data was loaded from a file with a null area,
\* a feature without the label key and a non-numeric N_domi
C7_Witness ==
    /\ app = "drenagem"
    /\ cache.ok
    /\ rendered.status = "ok"
    /\ NaoInformado \in rendered.areas
    /\ \E i \in 1..Len(file) : file[i].AREA_y = None
    /\ \E i \in 1..Len(file) :
          /\ file[i].LABEL = Absent
          /\ file[i].N_domi.t = "text"
          /\ file[i].AREA_y = Absent

\* ------------------------------------------------------------------------
\* Claims about parse_coord
\* ------------------------------------------------------------------------
\* The whole part and the millionths of a Decimal of 6 places
WholeOf(d) ==
    IF Len(d.digits) <= 6 THEN 0
    ELSE int(SubSeq(d.digits, 1, Len(d.digits) - 6))
MillionthsOf(d) ==
    IF Len(d.digits) <= 6 THEN int(d.digits)
    ELSE int(SubSeq(d.digits, Len(d.digits) - 5, Len(d.digits)))

\* The first 7 fraction digits of a written number, as tenths of millionths
TenthsOfMillionths(fp) ==
    int([i \in 1..7 |-> IF i <= Len(fp) THEN fp[i] ELSE "0"])

\* The millionths of the fraction of a written number of at most 7 places,
\* rounded half up, counted from zero; 1000000 carries into the whole part
HalfUp(fp) ==
    TenthsOfMillionths(fp) \div 10
    + (IF TenthsOfMillionths(fp) % 10 >= 5 THEN 1 ELSE 0)

\* The Decimal is the written number rounded half up to 6 places
IsRounded(d, l) ==
    /\ d # NoDecimal
    /\ d.sign = (IF l.neg THEN 1 ELSE 0)
    /\ WholeOf(d) = int(l.ip) + HalfUp(l.fp) \div 1000000
    /\ MillionthsOf(d) = HalfUp(l.fp) % 1000000

\* C11: a number is returned with 6 places, rounded half up, and below 1000
\* in absolute value; a text that is no number gives None
C11_SixPlacesBelow1000 ==
    coords # <<>> =>
        IF coordenadas.number
        THEN /\ IsRounded(coords[1], coordenadas)
             /\ WholeOf(coords[1]) < 1000
        ELSE coords[1] = NoDecimal

\* ------------------------------------------------------------------------
\* Claims about the coordinates of POST /enviar
\* ------------------------------------------------------------------------
\* The row the last request stored
Stored == table[Len(table)]

\* C12: the stored coordinates are those of the separate fields when the
\* combined field is absent, blank or yields no coordinate, and those of the
\* combined field when it yields both
C12_CombinedFirst ==
    flashed = "success" =>
        LET c == parse_coords_combined(request.coordenadas) IN
        /\ (Blank(request.coordenadas) \/ c = <<NoDecimal, NoDecimal>>) =>
              /\ Stored.latitude = parse_coord(request.latitude)
              /\ Stored.longitude = parse_coord(request.longitude)
        /\ (c[1] # NoDecimal /\ c[2] # NoDecimal) =>
              /\ Stored.latitude = c[1]
              /\ Stored.longitude = c[2]

\* A combined field that yields both was stored and the separate fields,
\* filled in with other numbers, were ignored
C12_Witness ==
    /\ flashed = "success"
    /\ request.coordenadas = Txt15 \o <<" ", "5">>
    /\ request.latitude = Txt05
    /\ request.longitude = Txt05
    /\ Stored.latitude = Dec6(FALSE, <<"1", "5", "0", "0", "0", "0", "0">>)
    /\ Stored.longitude = Dec6(FALSE, <<"5", "0", "0", "0", "0", "0", "0">>)

\* C13: every stored row has both a latitude and a longitude or neither
C13_BothOrNeither ==
    \A i \in 1..Len(table) :
        (table[i].latitude = NoDecimal) <=> (table[i].longitude = NoDecimal)

\* ------------------------------------------------------------------------
\* Claims about the rejections and failures of POST /enviar
\* ------------------------------------------------------------------------
\* C14: a request with an empty street, number or neighbourhood gets the error
\* flash and the redirect to the form, and leaves the table and the upload
\* directory as they were
C14_RejectedLeavesState ==
    [][AnyRequiredBlank(request') =>
          /\ flashed' = "error:preencha"
          /\ response' = Redirect
          /\ table' = table
          /\ seq' = seq
          /\ uploads' = uploads]_vars

\* C15: when the insert raises, the table holds the rows it held before, the
\* error is flashed instead of the success message and the answer is the
\* redirect to the form; the success message goes with a new row
C15_RollbackOnFailure ==
    [][/\ flashed' = "error:salvar" =>
             /\ ~AnyRequiredBlank(request')
             /\ table' = table
             /\ response' = Redirect
       /\ flashed' = "success" => Len(table') = Len(table) + 1]_vars

\* A request was stored after the insert of an earlier one had been refused
\* and had used up id 1
C15_Witness ==
    /\ flashed = "success"
    /\ Len(table) = 1
    /\ table[1].id = 2

\* ------------------------------------------------------------------------
\* Claims about the photos of POST /enviar
\* ------------------------------------------------------------------------
\* C16: no upload overwrites the file of another request: every file of the
\* upload directory stays, with its content, whatever is uploaded next
C16_NoOverwrite ==
    [][\A f \in uploads : f \in uploads']_vars
\* The name has a dot and, after its last dot, one of the five extensions,
\* in any case
PhotoName(name) ==
    \E i \in 1..Len(name) :
        /\ name[i] = "."
        /\ \A j \in (i + 1)..Len(name) : name[j] # "."
        /\ lower(SubSeq(name, i + 1, Len(name)))
              \in {<<"p", "n", "g">>, <<"j", "p", "g">>, <<"j", "p", "e", "g">>,
                   <<"g", "i", "f">>, <<"w", "e", "b", "p">>}

\* The request carried a file of such a name
CarriedPhoto(req) == req.foto # NoFile /\ PhotoName(req.foto.filename)

\* C17: a row is stored with a foto_path only when its request carried a
\* file of an allowed name; a file of another name is not written, and its
\* request is stored all the same, with no foto_path (a step that leaves the
\* clock as it was is a request)
C17_AllowedPhotosOnly ==
    [][/\ (Len(table') > Len(table) /\ table'[Len(table')].foto_path # None)
             => CarriedPhoto(request')
       /\ (clock' = clock /\ ~CarriedPhoto(request')) =>
             /\ uploads' = uploads
             /\ (~AnyRequiredBlank(request') /\ flashed' # "error:salvar") =>
                   /\ Len(table') = Len(table) + 1
                   /\ table'[Len(table')].foto_path = None]_vars

\* A request with a file named p.exe was stored, without foto_path, and the
\* file was not written
C17_Witness ==
    /\ flashed = "success"
    /\ request.foto = Foto(<<"p", ".", "e", "x", "e">>, "img1")
    /\ table[Len(table)].foto_path = None
    /\ uploads = {}

\* ------------------------------------------------------------------------
\* Claim about GET /lista
\* ------------------------------------------------------------------------
\* The lines of a response: the texts between the <br>
RECURSIVE split_br(_, _)
split_br(body, cur) ==
    IF body = <<>> THEN <<cur>>
    ELSE IF Head(body) = "<br>" THEN <<cur>> \o split_br(Tail(body), <<>>)
    ELSE split_br(Tail(body), Append(cur, Head(body)))

\* The text x is part of the line
Shows(line, x) ==
    \E i \in 1..(Len(line) - Len(x) + 1) :
        SubSeq(line, i, i + Len(x) - 1) = x

\* The response is that of GET /lista
Listed == response \notin {NoResponse, Redirect}

\* The location the line of a row is to show
LocOf(row) ==
    IF row.latitude # NoDecimal /\ row.longitude # NoDecimal
    THEN str_decimal(row.latitude) \o <<",">> \o str_decimal(row.longitude)
    ELSE <<"-">>

\* C18: GET /lista gives one line per stored row, the ids strictly
\* descending; a line shows 'latitude,longitude' when the row has both and
\* '-' otherwise; the response is 'Sem registros.' exactly when the table is
\* empty
C18_ListaLines ==
    Listed =>
        /\ response = <<"Sem registros.">> <=> table = <<>>
        /\ table # <<>> =>
              LET lines == split_br(response, <<>>)
                  RowOf(k) == CHOOSE r \in Range(table) :
                                  Cardinality({q \in Range(table) :
                                                  q.id > r.id}) = k - 1
              IN  /\ Len(lines) = Len(table)
                  /\ \A k \in 1..Len(lines) :
                        /\ SubSeq(lines[k], 1, Len(IntText(RowOf(k).id)) + 1)
                              = IntText(RowOf(k).id) \o <<" - ">>
                        /\ Shows(lines[k], <<" | loc: ">> \o LocOf(RowOf(k))
                                           \o <<" | foto: ">>)

\* Two lines, of a row with latitude only and of a later row with both
C18_Witness ==
    /\ Listed
    /\ Len(table) = 2
    /\ table[1].latitude # NoDecimal
    /\ table[1].longitude = NoDecimal
    /\ table[2].latitude # NoDecimal
    /\ table[2].longitude # NoDecimal
    /\ Len(split_br(response, <<>>)) = 2

\* ------------------------------------------------------------------------
\* Claim about the map of the drainage dashboard
\* ------------------------------------------------------------------------
\* C19: in the drainage dashboard the polygons on the map are exactly the
\* features whose rows are in the filtered table
C19_MapShowsFilteredRows ==
    (app = "drenagem" /\ rendered.status = "ok") =>
        rendered.map.polygons = rendered.rows

\* ------------------------------------------------------------------------
\* Claim about the loader of the poles dashboard
\* ------------------------------------------------------------------------
\* C20: a failed load is not remembered: the cache never holds the result of
\* a load that failed, so the run after a failure calls the loader again
C20_FailureNotRemembered == cache.hit => cache.ok

\* ------------------------------------------------------------------------
\* Claim about the filters of the poles dashboard
\* ------------------------------------------------------------------------
\* The loaded rows of the neighbourhood the page shows
RowsOfBairro ==
    SelectSeq(PostesLoaded.df, LAMBDA r :
        rendered.bairro = Nenhum \/ r.Bairro = rendered.bairro)

\* The rows that satisfy the three filters of the page together, the power
\* and the lamp value of a row being the ones the selectors show for it
RowsOfFilters ==
    SelectSeq(RowsOfBairro, LAMBDA r :
        /\ rendered.potencia = Nenhum
              \/ str_potencia(r.Potencia) = rendered.potencia
        /\ rendered.lampada = Nenhum
              \/ astype_str(r.Lampada) = rendered.lampada)

\* C21: the total shown is the number of loaded rows that satisfy the three
\* filters together, "Nenhum" imposing no constraint, and the power and lamp
\* options offered are the values of the rows of the selected neighbourhood
C21_TotalOfFilters ==
    (app = "postes" /\ rendered.status = "ok") =>
        /\ rendered.total = Len(RowsOfFilters)
        /\ rendered.opcoes_potencia =
              {Nenhum} \cup {str_potencia(RowsOfBairro[i].Potencia) :
                                i \in 1..Len(RowsOfBairro)}
        /\ rendered.opcoes_lampada =
              {Nenhum} \cup {astype_str(RowsOfBairro[i].Lampada) :
                                i \in 1..Len(RowsOfBairro)}

====
